---- MODULE Spec2Model ----
(***************************************************************************)
(* The real-time GNSS cache of src/hardware_manager.py (HardwareManager):  *)
(* the gpspipe reader thread, the lock-protected cache, the query facade   *)
(* get_best_gnss_data, close_all and the singleton constructor.            *)
(*                                                                         *)
(* Time is the wall clock time.time() in whole seconds.  Steps of a thread *)
(* that do not block take no time: the clock only advances while the lock  *)
(* is free and the reader thread is blocked (in readline, in a sleep) or   *)
(* has ended.                                                              *)
(***************************************************************************)
EXTENDS Integers, Sequences, FiniteSets, TLC

\* ---------------------------------------------------------------- bounds
\* Number of request threads calling the facade / the constructor.
NumCallers == 2
\* Request threads in the fair specification (at most NumCallers).
NumPollers == 1
\* The clock starts here (time.time() is seconds since 1970, far above 10).
ClockStart == 20
\* Number of seconds the clock may advance in one behaviour.
Horizon == 11
\* Number of threads racing through first construction (SpecCtor).
NumCtor == 2
\* Rows poll_gnss_data may insert in one behaviour (SpecUse).
MaxRows == 2

\* ------------------------------------------------------ program constants
\* get_best_gnss_data: `> 10`
StaleAfter == 10
\* time.sleep(5) after end of stream
RestartBackoff == 5
\* time.sleep(10) after an unexpected exception
ErrorBackoff == 10

MaxTime == ClockStart + Horizon
Callers == 1..NumCallers
Pollers == 1..NumPollers
Ctors == 1..NumCtor

\* ------------------------------------------------------------------ JSON
\* A JSON object is a function from its keys to its values; scalar values
\* are kept as their JSON text.
HasKey(d, k) == k \in DOMAIN d
\* dict.get(k): None when the key is absent
None == "None"
Get(d, k) == IF HasKey(d, k) THEN d[k] ELSE None
\* (mutant) the default is not used
GetOr_NoDefault(d, k, dflt) == IF HasKey(d, k) THEN d[k] ELSE None
\* dict.get(k, dflt)
GetOr(d, k, dflt) == IF HasKey(d, k) THEN d[k] ELSE dflt

\* Reports gpsd emits.
TPV3 == [class |-> "TPV", mode |-> "3", lat |-> "36.1", lon |-> "-86.8", alt |-> "150.0"]
SKY9 == [class |-> "SKY", uSat |-> "9", nSat |-> "14"]
VERSION == [class |-> "VERSION", release |-> "3.22"]
NOCLASS == [mode |-> "3", lat |-> "1.0"]

\* A line of the subprocess's stdout, by what json.loads makes of it:
\*   kind "object": a JSON object (val); kind "scalar": valid JSON that is a
\*   number or null; kind "string", "array": valid JSON that is a string, an
\*   array; kind "garbage": not valid JSON.
ObjLine(o) == [kind |-> "object", val |-> o]
ScalarLine == [kind |-> "scalar", val |-> [text |-> "42"]]
StringLine == [kind |-> "string", val |-> [text |-> "first class"]]
ArrayLine == [kind |-> "array", val |-> [text |-> "[1, 2]"]]
GarbageLine == [kind |-> "garbage", val |-> [text |-> "$GPGGA"]]
\* The reader's `line`/`data` locals when they hold nothing.
NoLine == [kind |-> "none", val |-> [text |-> ""]]

Lines == {ObjLine(TPV3), ObjLine(SKY9), ObjLine(VERSION),
          ObjLine(NOCLASS), ScalarLine, StringLine, ArrayLine, GarbageLine}

\* json.loads(line.strip()) raises JSONDecodeError
JsonDecodeError(l) == l.kind = "garbage"
\* `'class' in data` raises TypeError (data is not a container)
ClassTestRaises(l) == l.kind = "scalar"
\* `'class' in data`: a key of the object, a part of the string, an element
\* of the array
HasClass(l) ==
    \/ l.kind = "object" /\ HasKey(l.val, "class")
    \/ l.kind = "string" /\ l.val.text \in {"class", "first class"}
    \/ l.kind = "array" /\ l.val.text \in {"[\"class\"]"}
\* data['class'] raises TypeError (a string or a list has no such index)
SubscriptRaises(l) == l.kind \in {"string", "array"}
\* (mutant) every class is stored
Recognized_AnyClass(o) == TRUE
\* data['class'] in ['TPV', 'SKY']
Recognized(o) == o["class"] \in {"TPV", "SKY"}
\* The lines that update the cache.
Accepted(l) == l.kind = "object" /\ HasClass(l) /\ Recognized(l.val)

\* ------------------------------------------------------------- the cache
\* __init__: self._latest_gps_data
ResetCache == [TPV |-> [class |-> "TPV", mode |-> "0"],
               SKY |-> [class |-> "SKY", satellites |-> "[]"],
               last_update |-> 0]


\* ---------------------------------------------------------- the facade
\* (mutant) the comparison is >= instead of >
IsStale_AtLeast(t, lu) == t - lu >= StaleAfter
\* (mutant) a last_update of 0 is taken as "not set" and never stale
IsStale_UnsetIsFresh(t, lu) == lu # 0 /\ t - lu > StaleAfter
\* get_best_gnss_data: time.time() - last_update > 10
IsStale(t, lu) == t - lu > StaleAfter

\* (mutant) the staleness result keeps position fields
StaleResult_WithPosition ==
    [error |-> "Stale GPS data. gpspipe stream may be down or no fix.",
     fix_type |-> "No Fix", latitude |-> None, longitude |-> None]
\* get_best_gnss_data: the staleness result (the source's text has gpspipe
\* between backquotes)
StaleResult == [error |-> "Stale GPS data. gpspipe stream may be down or no fix.",
                fix_type |-> "No Fix"]

\* A list or a dict: hash() raises TypeError, so it cannot be looked up in
\* a dict.
Unhashable(v) == v \in {"[]", "[3]", "{}"}

\* The key of fix_type_map (0, 1, 2, 3) a value is equal to, if any: a dict
\* lookup goes by == and hash, and in Python True == 1 and False == 0.
PyKey(v) ==
    CASE v = "true" -> "1"
      [] v = "false" -> "0"
      [] OTHER -> v

\* fix_type_map.get(fix_mode, "Unknown")
FixType(mode) ==
    CASE PyKey(mode) \in {"0", "1"} -> "No Fix"
      [] PyKey(mode) = "2" -> "2D Fix"
      [] PyKey(mode) = "3" -> "3D Fix"
      [] OTHER -> "Unknown"

\* (mutant) the fallback written with `or`: 0 falls through like None
Altitude_ZeroFallsThrough(tpv) ==
    IF Get(tpv, "altHAE") \notin {None, "0"} THEN Get(tpv, "altHAE")
    ELSE IF Get(tpv, "altMSL") \notin {None, "0"} THEN Get(tpv, "altMSL")
    ELSE Get(tpv, "alt")

\* altHAE, else altMSL, else alt
Altitude(tpv) ==
    IF Get(tpv, "altHAE") # None THEN Get(tpv, "altHAE")
    ELSE IF Get(tpv, "altMSL") # None THEN Get(tpv, "altMSL")
    ELSE Get(tpv, "alt")

\* get_best_gnss_data: the normalized record
Normalize(tpv, sky) ==
    [source |-> "Realtime gpspipe Stream",
     fix_type |-> FixType(GetOr(tpv, "mode", "0")),
     latitude |-> Get(tpv, "lat"),
     longitude |-> Get(tpv, "lon"),
     altitude_m |-> Altitude(tpv),
     speed_mps |-> Get(tpv, "speed"),
     track_deg |-> Get(tpv, "track"),
     climb_mps |-> Get(tpv, "climb"),
     time_utc |-> Get(tpv, "time"),
     satellites_used |-> GetOr(sky, "uSat", "0"),
     satellites_in_view |-> GetOr(sky, "nSat", "0"),
     error_horizontal_m |-> Get(tpv, "epx"),
     error_vertical_m |-> Get(tpv, "epv")]

\* d[k] = v on a dict: the key is added when it is absent
SetItem(d, k, v) == [x \in DOMAIN d \cup {k} |-> IF x = k THEN v ELSE d[x]]

\* A caller's locals before it has read anything.
NoData == [class |-> "unread"]
NoResult == [pending |-> "yes"]
\* An exception that leaves the call instead of a result.
TypeError == [exception |-> "TypeError"]

\* ----------------------------------------------------------------- state
VARIABLES
    now,            \* time.time(), whole seconds
    cache,          \* self._latest_gps_data
    gps_lock,       \* HardwareManager._gps_lock is held
    stop,           \* self._stop_gps_thread is set
    rpc,            \* where the reader thread is in _gps_reader_thread
    process,        \* the reader's local `process`: "None", or the state
                    \* ("running", "killed") of the Popen object it names
    alive,          \* number of subprocesses launched and not yet killed
    line,           \* the reader's current line
    wakeAt,         \* when the reader's current time.sleep ends
    cpc,            \* where each request thread is
    tpv_data,       \* get_best_gnss_data's local tpv_data, per thread
    sky_data,       \* get_best_gnss_data's local sky_data, per thread
    result,         \* what the thread's last call returned
    instance,       \* HardwareManager._instance (0: None)
    initialized,    \* _initialized of each object created
    threadsStarted, \* reader threads started by __init__
    created,        \* objects made by super().__new__
    kpc,            \* where each constructing thread is in __new__/__init__
    kself,          \* the object each constructing thread's call is on
    cachesMade,     \* times __init__ made _latest_gps_data, per object
    committed,      \* history: the cache as the last completed update left it
    seen,           \* history: `committed` when the call took the lock, per thread
    tpvAt,          \* history: .at is time.time() when the TPV slot's report
                    \* was stored (0: none yet); kept where .kept says so
    closures,      \* history: number of times the stream has ended
    endCause,       \* history: why the reader thread ended
    location_data,  \* rows of the table location_data, in insertion order
    hw_injected     \* location_services._hw_manager_instance is set

readerVars == <<rpc, process, alive, line, wakeAt, endCause, closures>>
callerVars == <<cpc, tpv_data, sky_data, result>>
ctorVars == <<instance, initialized, threadsStarted, created, kpc, kself, cachesMade>>
histVars == <<committed, seen, tpvAt>>
appVars == <<location_data, hw_injected>>
vars == <<now, cache, gps_lock, stop, histVars, readerVars, callerVars, ctorVars, appVars>>

\* tpvAt at the start, in a behaviour that keeps that history or not.
NoTpvYet(keep) == [kept |-> keep, at |-> 0]

\* The state once HardwareManager(...) has returned for the first time
\* (app.py, data_poller.py construct it once at startup): the cache reset,
\* the reader thread started and about to test the stop flag.
Started ==
    /\ now = ClockStart
    /\ cache = ResetCache
    /\ committed = ResetCache
    /\ seen = [c \in Callers |-> ResetCache]
    /\ gps_lock = FALSE
    /\ stop = FALSE
    /\ rpc = "while"
    /\ process = "None"
    /\ alive = 0
    /\ line = NoLine
    /\ wakeAt = 0
    /\ endCause = "running"
    /\ cpc = [c \in Callers |-> "idle"]
    /\ tpv_data = [c \in Callers |-> NoData]
    /\ sky_data = [c \in Callers |-> NoData]
    /\ result = [c \in Callers |-> NoResult]
    /\ closures = 0
    /\ instance = 1
    /\ initialized = [i \in {1} |-> TRUE]
    /\ threadsStarted = 1
    /\ created = 1
    /\ cachesMade = [i \in {1} |-> 1]
    /\ kpc = [t \in Ctors |-> "returned"]
    /\ kself = [t \in Ctors |-> 1]
    /\ location_data = << >>
    /\ hw_injected = TRUE

Init == Started /\ tpvAt = NoTpvYet(FALSE)

\* --------------------------------------------------------- reader thread
\* A time.sleep(d) that begins now ends within the model's clock, or the
\* stop flag is set (the reader then sleeps no more on this path).
CanSleep(d) == stop \/ now + d <= MaxTime

\* line 95: while not self._stop_gps_thread.is_set()
ReaderWhile ==
    /\ rpc = "while"
    /\ IF stop
         THEN rpc' = "done" /\ endCause' = "stop"
         ELSE rpc' = "popen" /\ endCause' = endCause
    /\ UNCHANGED <<process, alive, line, wakeAt, closures>>
    /\ UNCHANGED <<now, cache, gps_lock, stop, histVars, callerVars, ctorVars, appVars>>

\* line 98: subprocess.Popen succeeds
PopenOk ==
    /\ rpc = "popen"
    /\ process' = "running"
    /\ alive' = alive + 1
    /\ rpc' = "readline"
    /\ UNCHANGED <<line, wakeAt, endCause, closures>>
    /\ UNCHANGED <<now, cache, gps_lock, stop, histVars, callerVars, ctorVars, appVars>>

\* line 98 raises FileNotFoundError; lines 119-121: return (through finally)
PopenNotFound ==
    /\ rpc = "popen"
    /\ rpc' = "finally_return"
    /\ UNCHANGED <<process, alive, line, wakeAt, endCause, closures>>
    /\ UNCHANGED <<now, cache, gps_lock, stop, histVars, callerVars, ctorVars, appVars>>

\* line 98 raises another exception; lines 122-124: time.sleep(10)
PopenFails ==
    /\ rpc = "popen"
    /\ now + ErrorBackoff <= MaxTime
    /\ rpc' = "sleep10"
    /\ wakeAt' = now + ErrorBackoff
    /\ UNCHANGED <<process, alive, line, endCause, closures>>
    /\ UNCHANGED <<now, cache, gps_lock, stop, histVars, callerVars, ctorVars, appVars>>

\* line 99: readline returns a line
ReadLine(l) ==
    /\ rpc = "readline"
    /\ (ClassTestRaises(l) \/ (HasClass(l) /\ SubscriptRaises(l))) => CanSleep(ErrorBackoff)
    /\ line' = l
    /\ rpc' = "chk_stop"
    /\ UNCHANGED <<process, alive, wakeAt, endCause, closures>>
    /\ UNCHANGED <<now, cache, gps_lock, stop, histVars, callerVars, ctorVars, appVars>>

\* line 99: readline returns '' (end of stream), the for loop ends
ReadEOF ==
    /\ rpc = "readline"
    /\ CanSleep(RestartBackoff)
    /\ rpc' = "after_for"
    /\ closures' = closures + 1
    /\ UNCHANGED <<process, alive, line, wakeAt, endCause>>
    /\ UNCHANGED <<now, cache, gps_lock, stop, histVars, callerVars, ctorVars, appVars>>

\* (mutant) the exception is not caught: it ends the thread
ReadRaises_Escapes ==
    /\ rpc = "readline"
    /\ rpc' = "done"
    /\ UNCHANGED <<process, alive, line, wakeAt, endCause, closures>>
    /\ UNCHANGED <<now, cache, gps_lock, stop, histVars, callerVars, ctorVars, appVars>>

\* line 99: readline raises (I/O or decoding error); lines 122-124
ReadRaises ==
    /\ rpc = "readline"
    /\ now + ErrorBackoff <= MaxTime
    /\ rpc' = "sleep10"
    /\ wakeAt' = now + ErrorBackoff
    /\ UNCHANGED <<process, alive, line, endCause, closures>>
    /\ UNCHANGED <<now, cache, gps_lock, stop, histVars, callerVars, ctorVars, appVars>>

\* (mutant) the read loop does not test the stop flag
ReaderParse_NoStopTest ==
    /\ rpc = "chk_stop"
    /\ CASE JsonDecodeError(line) ->
               rpc' = "readline" /\ line' = NoLine /\ wakeAt' = wakeAt
         [] ClassTestRaises(line) ->
               rpc' = "sleep10" /\ line' = NoLine /\ wakeAt' = now + ErrorBackoff
         [] HasClass(line) ->
               rpc' = "lock" /\ line' = line /\ wakeAt' = wakeAt
         [] OTHER ->
               rpc' = "readline" /\ line' = NoLine /\ wakeAt' = wakeAt
    /\ UNCHANGED <<process, alive, endCause, closures>>
    /\ UNCHANGED <<now, cache, gps_lock, stop, histVars, callerVars, ctorVars, appVars>>

\* lines 100-104, 110-111: the stop test, then json.loads and the test
\* `'class' in data`
ReaderParse ==
    /\ rpc = "chk_stop"
    /\ CASE stop ->
               rpc' = "after_for" /\ line' = NoLine /\ wakeAt' = wakeAt
         [] JsonDecodeError(line) ->
               rpc' = "readline" /\ line' = NoLine /\ wakeAt' = wakeAt
         [] ClassTestRaises(line) ->
               rpc' = "sleep10" /\ line' = NoLine /\ wakeAt' = now + ErrorBackoff
         [] HasClass(line) ->
               rpc' = "lock" /\ line' = line /\ wakeAt' = wakeAt
         [] OTHER ->
               rpc' = "readline" /\ line' = NoLine /\ wakeAt' = wakeAt
    /\ UNCHANGED <<process, alive, endCause, closures>>
    /\ UNCHANGED <<now, cache, gps_lock, stop, histVars, callerVars, ctorVars, appVars>>

\* (mutant) the reader enters its update without taking the lock
ReaderAcquire_NoLock ==
    /\ rpc = "lock"
    /\ rpc' = "cs_slot"
    /\ UNCHANGED <<process, alive, line, wakeAt, endCause, closures>>
    /\ UNCHANGED <<now, cache, gps_lock, stop, histVars, callerVars, ctorVars, appVars>>

\* line 105: with self._gps_lock (acquire)
ReaderAcquire ==
    /\ rpc = "lock"
    /\ gps_lock = FALSE
    /\ gps_lock' = TRUE
    /\ rpc' = "cs_slot"
    /\ UNCHANGED <<process, alive, line, wakeAt, endCause, closures>>
    /\ UNCHANGED <<now, cache, stop, histVars, callerVars, ctorVars, appVars>>

\* (mutant) the report's fields are added to those of the slot's report
StoreIn_Merges(c, o) ==
    LET old == c[o["class"]]
    IN SetItem(c, o["class"],
               [k \in DOMAIN old \cup DOMAIN o |-> IF HasKey(o, k) THEN o[k] ELSE old[k]])
\* (mutant) the whole cache is made anew around the report
StoreIn_ReplacesAll(c, o) == SetItem(ResetCache, o["class"], o)
\* line 108: self._latest_gps_data[data['class']] = data
StoreIn(c, o) == SetItem(c, o["class"], o)

\* (mutant) an exception leaves the with block without releasing the lock
LockAfterRaise_StillHeld == TRUE
\* line 105: the with statement releases the lock when an exception leaves
\* its block: the lock is not held afterwards
LockAfterRaise == FALSE

\* lines 107-108: the slot of the line's class; an unrecognized class
\* leaves the with block (release); data['class'] on a string or a list
\* raises TypeError, which leaves the with block for lines 122-124
ReaderSlot ==
    /\ rpc = "cs_slot"
    /\ CASE SubscriptRaises(line) ->
               /\ gps_lock' = LockAfterRaise
               /\ rpc' = "sleep10"
               /\ wakeAt' = now + ErrorBackoff
               /\ UNCHANGED <<cache, line>>
         [] ~SubscriptRaises(line) /\ Recognized(line.val) ->
               /\ cache' = StoreIn(cache, line.val)
               /\ rpc' = "cs_stamp"
               /\ UNCHANGED <<gps_lock, line, wakeAt>>
         [] OTHER ->
               /\ gps_lock' = FALSE
               /\ rpc' = "readline"
               /\ line' = NoLine
               /\ UNCHANGED <<cache, wakeAt>>
    /\ UNCHANGED <<process, alive, endCause, closures>>
    /\ UNCHANGED <<now, stop, histVars, callerVars, ctorVars, appVars>>

\* line 109: last_update = time.time(), then the with block ends (release)
ReaderStamp ==
    /\ rpc = "cs_stamp"
    /\ cache' = [cache EXCEPT !.last_update = now]
    /\ committed' = cache'
    /\ tpvAt' = IF tpvAt.kept /\ line.val["class"] = "TPV"
                  THEN [tpvAt EXCEPT !.at = now] ELSE tpvAt
    /\ gps_lock' = FALSE
    /\ rpc' = "readline"
    /\ line' = NoLine
    /\ UNCHANGED <<process, alive, wakeAt, endCause, closures>>
    /\ UNCHANGED <<now, stop, seen, callerVars, ctorVars, appVars>>

\* The loop left for good at the end of the stream, whatever the stop flag.
ReaderAfterFor_AlwaysBreak ==
    /\ rpc = "after_for"
    /\ rpc' = "finally_break"
    /\ UNCHANGED <<process, alive, line, wakeAt, endCause, closures>>
    /\ UNCHANGED <<now, cache, gps_lock, stop, histVars, callerVars, ctorVars, appVars>>

\* lines 113-114: after the for loop: break on stop
ReaderAfterFor ==
    /\ rpc = "after_for"
    /\ rpc' = IF stop THEN "finally_break" ELSE "restart"
    /\ UNCHANGED <<process, alive, line, wakeAt, endCause, closures>>
    /\ UNCHANGED <<now, cache, gps_lock, stop, histVars, callerVars, ctorVars, appVars>>

\* lines 116-117: time.sleep(5) begins
ReaderRestartSleep ==
    /\ rpc = "restart"
    /\ rpc' = "sleep5"
    /\ wakeAt' = now + RestartBackoff
    /\ UNCHANGED <<process, alive, line, endCause, closures>>
    /\ UNCHANGED <<now, cache, gps_lock, stop, histVars, callerVars, ctorVars, appVars>>

\* A sleep that returns at once.
SleepOver_AtOnce(t, w) == TRUE

\* lines 117, 124: time.sleep(d) returns when d seconds have passed
SleepOver(t, w) == t >= w

\* time.sleep returns
ReaderWake ==
    /\ rpc \in {"sleep5", "sleep10"}
    /\ SleepOver(now, wakeAt)
    /\ rpc' = "finally_loop"
    /\ wakeAt' = 0
    /\ line' = NoLine
    /\ UNCHANGED <<process, alive, endCause, closures>>
    /\ UNCHANGED <<now, cache, gps_lock, stop, histVars, callerVars, ctorVars, appVars>>

\* (mutant) the return of line 121 goes round the loop like the other
\* exceptions
ReaderFinally_ReturnLoops ==
    /\ rpc \in {"finally_loop", "finally_break", "finally_return"}
    /\ process' = IF process = "None" THEN "None" ELSE "killed"
    /\ alive' = IF process = "running" THEN alive - 1 ELSE alive
    /\ rpc' = IF rpc = "finally_break" THEN "done" ELSE "while"
    /\ endCause' = CASE rpc = "finally_break" -> "stop"
                      [] rpc = "finally_return" -> "not_found"
                      [] OTHER -> endCause
    /\ UNCHANGED <<line, wakeAt, closures>>
    /\ UNCHANGED <<now, cache, gps_lock, stop, histVars, callerVars, ctorVars, appVars>>

\* (mutant) there is no kill in the finally block
ReaderFinally_NoKill ==
    /\ rpc \in {"finally_loop", "finally_break", "finally_return"}
    /\ rpc' = IF rpc = "finally_loop" THEN "while" ELSE "done"
    /\ endCause' = CASE rpc = "finally_break" -> "stop"
                      [] rpc = "finally_return" -> "not_found"
                      [] OTHER -> endCause
    /\ UNCHANGED <<process, alive, line, wakeAt, closures>>
    /\ UNCHANGED <<now, cache, gps_lock, stop, histVars, callerVars, ctorVars, appVars>>

\* lines 125-127: finally: if process: process.kill(); then the loop goes
\* on, or the thread ends (break, return)
ReaderFinally ==
    /\ rpc \in {"finally_loop", "finally_break", "finally_return"}
    /\ process' = IF process = "None" THEN "None" ELSE "killed"
    /\ alive' = IF process = "running" THEN alive - 1 ELSE alive
    /\ rpc' = IF rpc = "finally_loop" THEN "while" ELSE "done"
    /\ endCause' = CASE rpc = "finally_break" -> "stop"
                      [] rpc = "finally_return" -> "not_found"
                      [] OTHER -> endCause
    /\ UNCHANGED <<line, wakeAt, closures>>
    /\ UNCHANGED <<now, cache, gps_lock, stop, histVars, callerVars, ctorVars, appVars>>

\* The reader thread is blocked (readline, sleep) or has ended.
ReaderBlocked ==
    \/ rpc \in {"readline", "done"}
    \/ rpc \in {"sleep5", "sleep10"} /\ now < wakeAt

\* The clock advances one second (no call is in progress: a call takes
\* no time).
Tick ==
    /\ now < MaxTime
    /\ gps_lock = FALSE
    /\ ReaderBlocked
    /\ \A c \in Callers : cpc[c] = "idle"
    /\ now' = now + 1
    /\ UNCHANGED <<cache, gps_lock, stop, histVars, readerVars, callerVars, ctorVars, appVars>>

\* ------------------------------------------------------- request threads
\* line 206: get_best_gnss_data is called: with self._gps_lock (acquire)
GbAcquire(c) ==
    /\ cpc[c] = "idle"
    /\ gps_lock = FALSE
    /\ gps_lock' = TRUE
    /\ cpc' = [cpc EXCEPT ![c] = "gb_check"]
    /\ seen' = [seen EXCEPT ![c] = committed]
    /\ UNCHANGED <<tpv_data, sky_data, result>>
    /\ UNCHANGED <<now, cache, stop, committed, tpvAt, readerVars, ctorVars, appVars>>

\* lines 208-209: the staleness test; a stale cache returns the error
\* result (the with block ends: release)
GbCheck(c) ==
    /\ cpc[c] = "gb_check"
    /\ IF IsStale(now, cache.last_update)
         THEN /\ result' = [result EXCEPT ![c] = StaleResult]
              /\ gps_lock' = FALSE
              /\ cpc' = [cpc EXCEPT ![c] = "gb_ret"]
              /\ seen' = [seen EXCEPT ![c] = ResetCache]
         ELSE /\ cpc' = [cpc EXCEPT ![c] = "gb_tpv"]
              /\ UNCHANGED <<result, gps_lock, seen>>
    /\ UNCHANGED <<tpv_data, sky_data>>
    /\ UNCHANGED <<now, cache, stop, committed, tpvAt, readerVars, ctorVars, appVars>>

\* line 210: tpv_data = self._latest_gps_data.get("TPV", {})
GbReadTpv(c) ==
    /\ cpc[c] = "gb_tpv"
    /\ tpv_data' = [tpv_data EXCEPT ![c] = cache.TPV]
    /\ cpc' = [cpc EXCEPT ![c] = "gb_sky"]
    /\ UNCHANGED <<sky_data, result>>
    /\ UNCHANGED <<now, cache, gps_lock, stop, histVars, readerVars, ctorVars, appVars>>

\* lines 211-236: sky_data = ...get("SKY", {}), the with block ends
\* (release), and the normalized record is built from the two locals;
\* line 224 raises TypeError when the mode cannot be hashed
GbReadSky(c) ==
    /\ cpc[c] = "gb_sky"
    /\ IF Unhashable(GetOr(tpv_data[c], "mode", "0"))
         THEN /\ result' = [result EXCEPT ![c] = TypeError]
              /\ cpc' = [cpc EXCEPT ![c] = "gb_raised"]
         ELSE /\ result' = [result EXCEPT ![c] = Normalize(tpv_data[c], cache.SKY)]
              /\ cpc' = [cpc EXCEPT ![c] = "gb_ret"]
    /\ tpv_data' = [tpv_data EXCEPT ![c] = NoData]
    /\ UNCHANGED sky_data
    /\ gps_lock' = FALSE
    /\ seen' = [seen EXCEPT ![c] = ResetCache]
    /\ UNCHANGED <<now, cache, stop, committed, tpvAt, readerVars, ctorVars, appVars>>

\* line 211 alone: sky_data = self._latest_gps_data.get("SKY", {}), and the
\* with block ends (release); the call goes on with its two locals
GbTakeSky(c) ==
    /\ cpc[c] = "gb_sky"
    /\ sky_data' = [sky_data EXCEPT ![c] = cache.SKY]
    /\ gps_lock' = FALSE
    /\ cpc' = [cpc EXCEPT ![c] = "gb_build"]
    /\ UNCHANGED <<tpv_data, result>>
    /\ UNCHANGED <<now, cache, stop, histVars, readerVars, ctorVars, appVars>>

\* (mutant) the record is built from the slots the cache has by then
GbBuild_FromCache(c) ==
    /\ cpc[c] = "gb_build"
    /\ IF Unhashable(GetOr(cache.TPV, "mode", "0"))
         THEN /\ result' = [result EXCEPT ![c] = TypeError]
              /\ cpc' = [cpc EXCEPT ![c] = "gb_raised"]
         ELSE /\ result' = [result EXCEPT ![c] = Normalize(cache.TPV, cache.SKY)]
              /\ cpc' = [cpc EXCEPT ![c] = "gb_ret"]
    /\ tpv_data' = [tpv_data EXCEPT ![c] = NoData]
    /\ sky_data' = [sky_data EXCEPT ![c] = NoData]
    /\ seen' = [seen EXCEPT ![c] = ResetCache]
    /\ UNCHANGED <<now, cache, gps_lock, stop, committed, tpvAt, readerVars, ctorVars, appVars>>

\* lines 213-236, outside the with block: the normalized record is built
\* from the two locals; line 224 raises TypeError when the mode cannot be
\* hashed
GbBuild(c) ==
    /\ cpc[c] = "gb_build"
    /\ IF Unhashable(GetOr(tpv_data[c], "mode", "0"))
         THEN /\ result' = [result EXCEPT ![c] = TypeError]
              /\ cpc' = [cpc EXCEPT ![c] = "gb_raised"]
         ELSE /\ result' = [result EXCEPT ![c] = Normalize(tpv_data[c], sky_data[c])]
              /\ cpc' = [cpc EXCEPT ![c] = "gb_ret"]
    /\ tpv_data' = [tpv_data EXCEPT ![c] = NoData]
    /\ sky_data' = [sky_data EXCEPT ![c] = NoData]
    /\ seen' = [seen EXCEPT ![c] = ResetCache]
    /\ UNCHANGED <<now, cache, gps_lock, stop, committed, tpvAt, readerVars, ctorVars, appVars>>

\* The call returns: the caller has what it returned, the thread is free.
Return(c) ==
    /\ cpc[c] \in {"gb_ret", "gb_raised", "ctor_ret", "raw_ret", "status_ret",
                 "poll_ret", "loc_ret", "loc_raised"}
    /\ cpc' = [cpc EXCEPT ![c] = "idle"]
    /\ result' = [result EXCEPT ![c] = NoResult]
    /\ UNCHANGED <<tpv_data, sky_data>>
    /\ UNCHANGED <<now, cache, gps_lock, stop, histVars, readerVars, ctorVars, appVars>>

\* A reference to the dict self._latest_gps_data itself: who holds it sees
\* the cache as it is now.
TheCache == [ref |-> "_latest_gps_data"]
\* What the holder of r sees in it.
View(r) == IF r = TheCache THEN cache ELSE r

\* (mutant) the dict itself is returned
Copy_Itself(d) == TheCache
\* line 241: dict.copy(): a new dict with the keys and values d has now
Copy(d) == [k \in DOMAIN d |-> d[k]]

\* lines 238-241: get_raw_gps_cache: with the lock, a copy of the cache dict
\* (the lock is taken and released within the step)
GetRawCache(c) ==
    /\ cpc[c] = "idle"
    /\ gps_lock = FALSE
    /\ result' = [result EXCEPT ![c] = Copy(cache)]
    /\ cpc' = [cpc EXCEPT ![c] = "raw_ret"]
    /\ UNCHANGED <<tpv_data, sky_data>>
    /\ UNCHANGED <<now, cache, gps_lock, stop, histVars, readerVars, ctorVars, appVars>>

\* lines 243-253: get_gpsd_status asks systemctl about the two services and
\* reports what it says
GetGpsdStatus(c) ==
    /\ cpc[c] = "idle"
    /\ \E a, b \in {"active", "inactive"} :
          result' = [result EXCEPT ![c] = [gpsd |-> a, gps_init |-> b]]
    /\ cpc' = [cpc EXCEPT ![c] = "status_ret"]
    /\ UNCHANGED <<tpv_data, sky_data>>
    /\ UNCHANGED <<now, cache, gps_lock, stop, histVars, readerVars, ctorVars, appVars>>

\* (mutant) close_all also empties the cache
CloseAll_ClearsCache ==
    /\ stop = FALSE
    /\ stop' = TRUE
    /\ cache' = ResetCache
    /\ UNCHANGED <<now, gps_lock, histVars, readerVars, callerVars, ctorVars, appVars>>

\* (mutant) close_all also forgets the singleton
CloseAll_ForgetsInstance ==
    /\ stop = FALSE
    /\ stop' = TRUE
    /\ instance' = 0
    /\ UNCHANGED <<initialized, threadsStarted, created, kpc, kself, cachesMade>>
    /\ UNCHANGED <<now, cache, gps_lock, histVars, readerVars, callerVars, appVars>>

\* lines 292-297: close_all sets the stop flag.  (join(timeout=2) only makes
\* the calling thread wait; the modules it closes hold no state of the cache.)
CloseAll ==
    /\ stop = FALSE
    /\ stop' = TRUE
    /\ UNCHANGED <<now, cache, gps_lock, histVars, readerVars, callerVars, ctorVars, appVars>>

\* (mutant) __init__ has no _initialized guard
NeedsInit_Always(flags, obj) == TRUE
\* line 55: `if self._initialized: return` does not return
NeedsInit(flags, obj) == ~flags[obj]

\* lines 48-56, 66-88: HardwareManager(...) called by a request thread once
\* the first construction has returned: __new__, then __init__.
Construct(c) ==
    /\ cpc[c] = "idle"
    /\ LET make == instance = 0
           obj == IF make THEN created + 1 ELSE instance
           flags == IF make THEN SetItem(initialized, obj, FALSE) ELSE initialized
           fresh == NeedsInit(flags, obj)
       IN /\ instance' = obj
          /\ created' = IF make THEN created + 1 ELSE created
          /\ initialized' = IF fresh THEN SetItem(flags, obj, TRUE) ELSE flags
          /\ cache' = IF fresh THEN ResetCache ELSE cache
          /\ cachesMade' = IF fresh
                             THEN SetItem(cachesMade, obj, GetOr(cachesMade, obj, 0) + 1)
                             ELSE cachesMade
          /\ threadsStarted' = IF fresh THEN threadsStarted + 1 ELSE threadsStarted
          /\ result' = [result EXCEPT ![c] = [object |-> obj]]
    /\ cpc' = [cpc EXCEPT ![c] = "ctor_ret"]
    /\ UNCHANGED <<tpv_data, sky_data, kpc, kself>>
    /\ UNCHANGED <<now, gps_lock, stop, histVars, readerVars, appVars>>

Reader ==
    \/ ReaderWhile \/ PopenOk \/ PopenNotFound \/ PopenFails
    \/ (\E l \in Lines : ReadLine(l)) \/ ReadEOF \/ ReadRaises
    \/ ReaderParse \/ ReaderAcquire \/ ReaderSlot \/ ReaderStamp
    \/ ReaderAfterFor \/ ReaderRestartSleep \/ ReaderWake \/ ReaderFinally

Next ==
    \/ Reader
    \/ Tick
    \/ CloseAll
    \/ \E c \in Callers :
          \/ GbAcquire(c) \/ GbCheck(c) \/ GbReadTpv(c) \/ GbReadSky(c)
          \/ Return(c) \/ Construct(c)

Spec == Init /\ [][Next]_vars

\* ------------------------------------------------------- all operations
\* The running system with every operation that touches the GNSS side of
\* the manager: the reader, the three queries, construction and close_all.
NextOps ==
    \/ Reader
    \/ Tick
    \/ CloseAll
    \/ \E c \in Pollers :
          \/ GbAcquire(c) \/ GbCheck(c) \/ GbReadTpv(c) \/ GbReadSky(c)
          \/ GetRawCache(c) \/ GetGpsdStatus(c) \/ Construct(c) \/ Return(c)

SpecOps == Init /\ [][NextOps]_vars

\* ------------------------------------------------------- fair scheduling
\* The steps the reader thread takes by itself (not the arrival of a line,
\* of the end of the stream or of a read error, which the subprocess
\* decides, and not the lock).
ReaderRuns ==
    \/ ReaderWhile \/ PopenOk \/ PopenNotFound \/ PopenFails
    \/ ReaderParse \/ ReaderSlot \/ ReaderStamp
    \/ ReaderAfterFor \/ ReaderRestartSleep \/ ReaderWake \/ ReaderFinally

\* A call in progress goes on to its return.
CallRuns(c) == GbCheck(c) \/ GbReadTpv(c) \/ GbReadSky(c) \/ Return(c)

\* No request is being served.
Quiet == \A c \in Callers : cpc[c] = "idle"

\* Threads that can run do run, the reader gets the lock in the end, the
\* requests do not follow each other without a pause for ever (they take
\* no time on the model's clock), and time goes on.
\* The reader thread, the clock, the shutdown and the threads that ask
\* for the position.
NextFair ==
    \/ Reader
    \/ Tick
    \/ CloseAll
    \/ \E c \in Pollers :
          GbAcquire(c) \/ GbCheck(c) \/ GbReadTpv(c) \/ GbReadSky(c) \/ Return(c)

FairSpec ==
    /\ Init /\ [][NextFair]_vars
    /\ WF_vars(ReaderRuns)
    /\ SF_vars(ReaderAcquire)
    /\ \A c \in Pollers : WF_vars(CallRuns(c))
    /\ []<>Quiet
    /\ SF_vars(Tick)

\* ------------------------------------------- what a caller holds, later
\* Reports gpsd emits without a fix and without the count of used
\* satellites, and the lines of a stream that has them too.
TPV1 == [class |-> "TPV", mode |-> "1"]
SKYNoUsed == [class |-> "SKY", nSat |-> "14"]
StreamLines == Lines \cup {ObjLine(TPV1), ObjLine(SKYNoUsed)}

\* The reader on the stream of its subprocess, and request threads with
\* get_best_gnss_data taken apart at the end of its with block (the reader
\* can run between the release of the lock and the return) and
\* get_raw_gps_cache.  A call takes no time: the clock stands still.
NextSnap ==
    \/ ReaderWhile \/ PopenOk \/ (\E l \in StreamLines : ReadLine(l))
    \/ ReaderParse \/ ReaderAcquire \/ ReaderSlot \/ ReaderStamp
    \/ \E c \in Callers :
          \/ GbAcquire(c) \/ GbCheck(c) \/ GbReadTpv(c) \/ GbTakeSky(c)
          \/ GbBuild(c) \/ GetRawCache(c) \/ Return(c)

SpecSnap == Init /\ [][NextSnap]_vars

\* --------------------------------------------- the age of the TPV report
\* The running system with one request thread, keeping the time at which
\* the report of the TPV slot was stored.
InitAge == Started /\ tpvAt = NoTpvYet(TRUE)

SpecAge == InitAge /\ [][NextFair]_vars

\* ------------------------------------------------ values of the reports
\* Values a 'mode' field can carry: numbers, null, true, a string, a list.
ModeValues == {"0", "1", "2", "3", "99", None, "true", "'3'", "[3]"}

\* A JSON object from a set of (key, value) choices: every field is
\* absent ("absent") or carries one of its values.
Absent == "absent"
Object(fields) == [k \in {x \in DOMAIN fields : fields[x] # Absent} |-> fields[k]]

\* TPV reports that differ in their mode, and TPV reports that differ in
\* their altitude fields.
ModeReports ==
    {Object([class |-> "TPV", mode |-> m, lat |-> "36.1", lon |-> "-86.8"]) :
        m \in ModeValues \cup {Absent}}
AltReports ==
    {Object([class |-> "TPV", mode |-> "3", altHAE |-> h, altMSL |-> m, alt |-> a]) :
        h \in {Absent, None, "0", "101.5"}, m \in {Absent, None, "12.0"},
        a \in {Absent, "150.0"}}
\* SKY reports with and without their counts.
SkyReports ==
    {Object([class |-> "SKY", uSat |-> u, nSat |-> n]) :
        u \in {Absent, "9", None}, n \in {Absent, "14"}}

\* The cache the reader has left when the stream falls silent: as
\* constructed, or holding in each slot the report of an accepted line
\* (lines 108-109 store the object as it is), stamped at the current time.
ValueCaches ==
    LET slots == {ts \in (ModeReports \cup AltReports \cup {ResetCache.TPV})
                          \X (SkyReports \cup {ResetCache.SKY}) :
                     ts # <<ResetCache.TPV, ResetCache.SKY>>}
    IN {ResetCache} \cup
       {[TPV |-> ts[1], SKY |-> ts[2], last_update |-> ClockStart] : ts \in slots}

ValuesStart ==
    /\ now = ClockStart
    /\ cache \in ValueCaches
    /\ committed = cache
    /\ seen = [c \in Callers |-> ResetCache]
    /\ tpvAt = NoTpvYet(FALSE)
    /\ gps_lock = FALSE
    /\ stop = FALSE
    /\ rpc = "readline"
    /\ process = "running"
    /\ alive = 1
    /\ line = NoLine
    /\ wakeAt = 0
    /\ endCause = "running"
    /\ closures = 0
    /\ cpc = [c \in Callers |-> "idle"]
    /\ tpv_data = [c \in Callers |-> NoData]
    /\ sky_data = [c \in Callers |-> NoData]
    /\ result = [c \in Callers |-> NoResult]
    /\ instance = 1
    /\ initialized = [i \in {1} |-> TRUE]
    /\ threadsStarted = 1
    /\ created = 1
    /\ cachesMade = [i \in {1} |-> 1]
    /\ kpc = [t \in Ctors |-> "returned"]
    /\ kself = [t \in Ctors |-> 1]
    /\ location_data = << >>

InitValues == ValuesStart /\ hw_injected = TRUE

\* Calls of get_best_gnss_data while the reader waits for a line.
NextValues ==
    \E c \in Pollers :
        GbAcquire(c) \/ GbCheck(c) \/ GbReadTpv(c) \/ GbReadSky(c) \/ Return(c)

SpecValues == InitValues /\ [][NextValues]_vars

\* ------------------------------------------------ the users of the cache
\* data_poller.poll_gnss_data and location_services.get_location_details
\* call get_best_gnss_data and go on with what it returns.

\* (mutant) a result without 'error' is taken, whatever its latitude
Usable_AnyRecord(gps_data) == DOMAIN gps_data # {} /\ ~HasKey(gps_data, "error")
\* data_poller.py line 123, location_services.py line 98:
\* gps_data and "error" not in gps_data and gps_data.get('latitude') is not None
Usable(gps_data) ==
    /\ DOMAIN gps_data # {}
    /\ ~HasKey(gps_data, "error")
    /\ Get(gps_data, "latitude") # None

\* data_poller.py lines 125-134: the row of the INSERT INTO location_data
Row(gps_data) ==
    [latitude |-> Get(gps_data, "latitude"),
     longitude |-> Get(gps_data, "longitude"),
     altitude |-> Get(gps_data, "altitude_m"),
     source |-> GetOr(gps_data, "source", "Onboard GNSS"),
     metadata |-> gps_data]

\* data_poller.py lines 123-140: poll_gnss_data once its call of
\* get_best_gnss_data (line 121) has returned or raised: the row is
\* inserted for a usable result; an exception is logged (line 139)
PollGnssData(c) ==
    /\ cpc[c] \in {"gb_ret", "gb_raised"}
    /\ IF cpc[c] = "gb_ret" /\ Usable(result[c])
         THEN /\ Len(location_data) < MaxRows
              /\ location_data' = Append(location_data, Row(result[c]))
         ELSE location_data' = location_data
    /\ result' = [result EXCEPT ![c] = [returned |-> None]]
    /\ cpc' = [cpc EXCEPT ![c] = "poll_ret"]
    /\ UNCHANGED <<tpv_data, sky_data, hw_injected>>
    /\ UNCHANGED <<now, cache, gps_lock, stop, histVars, readerVars, ctorVars>>

\* The names bound in the module location_services: its imports (lines
\* 23-33) and its definitions (lines 36-105).
LocationServicesNames ==
    {"sys", "time", "HardwareManager", "GoogleV3", "GeocoderTimedOut",
     "GeocoderServiceError", "GEOPY_AVAILABLE", "__version__", "_location_cache",
     "CACHE_EXPIRY_SECONDS", "_hw_manager_instance", "set_hardware_manager",
     "_get_from_cache", "_set_in_cache", "get_location_details",
     "reverse_geocode_from_coords"}
\* The use of a name the module does not bind.
NameError == [exception |-> "NameError"]

\* The triples get_location_details returns (lat, lon, info).
NotProvided ==
    [lat |-> None, lon |-> None,
     info |-> [error |-> "Database/Config Manager not provided to location_services.get_location_details."]]
Unresolved ==
    [lat |-> None, lon |-> None,
     info |-> [error |-> "Failed to resolve location from any source."]]
Geocoded ==
    [lat |-> "40.7", lon |-> "-74.0", info |-> [source |-> "Google Geocoding"]]
FromGnss(gps_data) ==
    [lat |-> gps_data.latitude, lon |-> gps_data.longitude,
     info |-> [source |-> "Onboard GNSS"]]

\* location_services.py lines 57-93: get_location_details up to its GNSS
\* fallback: the managers test, the injected HardwareManager (without one,
\* line 67 uses the name logging before line 68 gets the instance), then
\* the geocoding of the query, which succeeds or not
GetLocationDetails(c) ==
    /\ cpc[c] = "idle"
    /\ \E provided, geocoded \in BOOLEAN :
          CASE ~provided ->
                  /\ result' = [result EXCEPT ![c] = NotProvided]
                  /\ cpc' = [cpc EXCEPT ![c] = "loc_ret"]
            [] provided /\ ~hw_injected /\ "logging" \notin LocationServicesNames ->
                  /\ result' = [result EXCEPT ![c] = NameError]
                  /\ cpc' = [cpc EXCEPT ![c] = "loc_raised"]
            [] provided /\ (hw_injected \/ "logging" \in LocationServicesNames)
                        /\ geocoded ->
                  /\ result' = [result EXCEPT ![c] = Geocoded]
                  /\ cpc' = [cpc EXCEPT ![c] = "loc_ret"]
            [] OTHER ->
                  /\ result' = result
                  /\ cpc' = [cpc EXCEPT ![c] = "loc_gnss"]
    /\ UNCHANGED <<tpv_data, sky_data, appVars>>
    /\ UNCHANGED <<now, cache, gps_lock, stop, histVars, readerVars, ctorVars>>

\* location_services.py lines 96-97: the call of get_best_gnss_data, which
\* begins by taking the lock (hardware_manager.py line 206)
LocCallGnss(c) ==
    /\ cpc[c] = "loc_gnss"
    /\ gps_lock = FALSE
    /\ gps_lock' = TRUE
    /\ cpc' = [cpc EXCEPT ![c] = "gb_check"]
    /\ seen' = [seen EXCEPT ![c] = committed]
    /\ UNCHANGED <<tpv_data, sky_data, result, appVars>>
    /\ UNCHANGED <<now, cache, stop, committed, tpvAt, readerVars, ctorVars>>

\* location_services.py lines 97-102: get_location_details once that call
\* has returned (the coordinates of a usable result, else the failure
\* triple) or raised (the exception goes on to the caller)
LocFromGnss(c) ==
    /\ cpc[c] \in {"gb_ret", "gb_raised"}
    /\ IF cpc[c] = "gb_raised"
         THEN /\ result' = result
              /\ cpc' = [cpc EXCEPT ![c] = "loc_raised"]
         ELSE /\ result' = [result EXCEPT ![c] =
                                IF Usable(result[c]) THEN FromGnss(result[c])
                                ELSE Unresolved]
              /\ cpc' = [cpc EXCEPT ![c] = "loc_ret"]
    /\ UNCHANGED <<tpv_data, sky_data, appVars>>
    /\ UNCHANGED <<now, cache, gps_lock, stop, histVars, readerVars, ctorVars>>

\* The two users and the clock, over the caches a silent stream has left;
\* the HardwareManager has been injected (data_poller.py line 317) or not
\* (app.py).
InitUse == ValuesStart /\ hw_injected \in BOOLEAN

NextUse ==
    \/ Tick
    \/ \E c \in Pollers :
          \/ GbAcquire(c) \/ GbCheck(c) \/ GbReadTpv(c) \/ GbReadSky(c)
          \/ PollGnssData(c)
          \/ GetLocationDetails(c) \/ LocCallGnss(c) \/ LocFromGnss(c)
          \/ Return(c)

SpecUse == InitUse /\ [][NextUse]_vars

\* ------------------------------------------------- concurrent first use
\* The state before any HardwareManager exists: NumCtor threads are about
\* to call HardwareManager(...) for the first time.
InitCtor ==
    /\ now = ClockStart
    /\ cache = ResetCache
    /\ committed = ResetCache
    /\ seen = [c \in Callers |-> ResetCache]
    /\ tpvAt = NoTpvYet(FALSE)
    /\ gps_lock = FALSE
    /\ stop = FALSE
    /\ rpc = "unstarted"
    /\ process = "None"
    /\ alive = 0
    /\ line = NoLine
    /\ wakeAt = 0
    /\ endCause = "running"
    /\ closures = 0
    /\ cpc = [c \in Callers |-> "idle"]
    /\ tpv_data = [c \in Callers |-> NoData]
    /\ sky_data = [c \in Callers |-> NoData]
    /\ result = [c \in Callers |-> NoResult]
    /\ instance = 0
    /\ initialized = << >>
    /\ threadsStarted = 0
    /\ created = 0
    /\ cachesMade = << >>
    /\ kpc = [t \in Ctors |-> "new_test"]
    /\ kself = [t \in Ctors |-> 0]
    /\ location_data = << >>
    /\ hw_injected = FALSE

\* line 49: if cls._instance is None
NewTest(t) ==
    /\ kpc[t] = "new_test"
    /\ kpc' = [kpc EXCEPT ![t] = IF instance = 0 THEN "new_create" ELSE "new_return"]
    /\ UNCHANGED <<instance, initialized, threadsStarted, created, kself, cachesMade>>
    /\ UNCHANGED <<now, cache, gps_lock, stop, histVars, readerVars, callerVars, appVars>>

\* line 50: cls._instance = super().__new__(cls)
NewCreate(t) ==
    /\ kpc[t] = "new_create"
    /\ created' = created + 1
    /\ instance' = created + 1
    /\ kpc' = [kpc EXCEPT ![t] = "new_flag"]
    /\ UNCHANGED <<initialized, threadsStarted, kself, cachesMade>>
    /\ UNCHANGED <<now, cache, gps_lock, stop, histVars, readerVars, callerVars, appVars>>

\* line 51: cls._instance._initialized = False
NewFlag(t) ==
    /\ kpc[t] = "new_flag"
    /\ initialized' = SetItem(initialized, instance, FALSE)
    /\ kpc' = [kpc EXCEPT ![t] = "new_return"]
    /\ UNCHANGED <<instance, threadsStarted, created, kself, cachesMade>>
    /\ UNCHANGED <<now, cache, gps_lock, stop, histVars, readerVars, callerVars, appVars>>

\* line 52: return cls._instance; __init__ is then called on that object
NewReturn(t) ==
    /\ kpc[t] = "new_return"
    /\ kself' = [kself EXCEPT ![t] = instance]
    /\ kpc' = [kpc EXCEPT ![t] = "init_test"]
    /\ UNCHANGED <<instance, initialized, threadsStarted, created, cachesMade>>
    /\ UNCHANGED <<now, cache, gps_lock, stop, histVars, readerVars, callerVars, appVars>>

\* lines 55-56: if self._initialized: return (AttributeError when line 51
\* has not run yet on this object)
InitTest(t) ==
    /\ kpc[t] = "init_test"
    /\ kpc' = [kpc EXCEPT ![t] =
                  IF ~HasKey(initialized, kself[t]) THEN "raised"
                  ELSE IF NeedsInit(initialized, kself[t]) THEN "init_body"
                  ELSE "returned"]
    /\ UNCHANGED <<instance, initialized, threadsStarted, created, kself, cachesMade>>
    /\ UNCHANGED <<now, cache, gps_lock, stop, histVars, readerVars, callerVars, appVars>>

\* lines 58-81: the body: the cache, the stop event and the thread object
\* are made, the modules loaded
InitBody(t) ==
    /\ kpc[t] = "init_body"
    /\ cachesMade' = SetItem(cachesMade, kself[t], GetOr(cachesMade, kself[t], 0) + 1)
    /\ kpc' = [kpc EXCEPT ![t] = "init_start"]
    /\ UNCHANGED <<instance, initialized, threadsStarted, created, kself>>
    /\ UNCHANGED <<now, cache, gps_lock, stop, histVars, readerVars, callerVars, appVars>>

\* line 85: self._gps_thread.start()
InitStart(t) ==
    /\ kpc[t] = "init_start"
    /\ threadsStarted' = threadsStarted + 1
    /\ kpc' = [kpc EXCEPT ![t] = "init_done"]
    /\ UNCHANGED <<instance, initialized, created, kself, cachesMade>>
    /\ UNCHANGED <<now, cache, gps_lock, stop, histVars, readerVars, callerVars, appVars>>

\* line 88: self._initialized = True; the call returns
InitDone(t) ==
    /\ kpc[t] = "init_done"
    /\ initialized' = SetItem(initialized, kself[t], TRUE)
    /\ kpc' = [kpc EXCEPT ![t] = "returned"]
    /\ UNCHANGED <<instance, threadsStarted, created, kself, cachesMade>>
    /\ UNCHANGED <<now, cache, gps_lock, stop, histVars, readerVars, callerVars, appVars>>

NextCtor ==
    \E t \in Ctors :
        \/ NewTest(t) \/ NewCreate(t) \/ NewFlag(t) \/ NewReturn(t)
        \/ InitTest(t) \/ InitBody(t) \/ InitStart(t) \/ InitDone(t)

SpecCtor == InitCtor /\ [][NextCtor]_vars

\* ================================================================ claims
\* The request thread c is inside get_best_gnss_data's with block.
InCall(c) == cpc[c] \in {"gb_check", "gb_tpv", "gb_sky"}
\* This step is c's staleness test / its read of the TPV slot / its read of
\* the SKY slot and return of the normalized record.
ChecksNow(c) == cpc[c] = "gb_check" /\ cpc'[c] # "gb_check"
ReadsTpvNow(c) == cpc[c] = "gb_tpv" /\ cpc'[c] # "gb_tpv"
ReadsSkyNow(c) == cpc[c] = "gb_sky" /\ cpc'[c] # "gb_sky"
\* A result is the normalized record.
IsRecord(r) == DOMAIN r = DOMAIN Normalize(NoData, NoData)

\* C1: whatever the interleaving of the reader's updates with the calls,
\* what a call reads (the last_update it compares, the TPV slot, the SKY
\* slot) is the cache as left by the updates completed before the call
\* took the lock: while a call is inside its with block the cache is that
\* state, never a half-applied update, and each read returns its field.
C1_SnapshotAtomic ==
    /\ [](\A c \in Callers : InCall(c) => cache = seen[c] /\ committed = seen[c])
    /\ [][\A c \in Callers :
            /\ ChecksNow(c) =>
                  (cpc'[c] = "gb_ret" <=> now - seen[c].last_update > StaleAfter)
            /\ ReadsTpvNow(c) => tpv_data'[c] = seen[c].TPV
            /\ ReadsSkyNow(c) =>
                  result'[c] = Normalize(seen[c].TPV, seen[c].SKY)]_vars

\* C1 witness: a call is between its read of the TPV slot and its read of
\* the SKY slot while the reader waits for the lock with a SKY line, and
\* the cache already holds an earlier update.
C1_Witness ==
    \E c \in Callers :
        /\ cpc[c] = "gb_sky" /\ rpc = "lock"
        /\ tpv_data[c] = TPV3 /\ line = ObjLine(SKY9)
        /\ seen[c].last_update > 0

\* C2: the call returns the staleness result exactly when time.time() minus
\* last_update is more than 10 seconds; up to and including 10 seconds it
\* goes on and returns the normalized record.
C2_StaleThreshold ==
    [][\A c \in Callers :
         /\ ChecksNow(c) =>
               /\ now - cache.last_update > 10 =>
                     cpc'[c] = "gb_ret" /\ result'[c] = StaleResult
               /\ now - cache.last_update <= 10 => cpc'[c] = "gb_tpv"
         /\ ReadsSkyNow(c) => cpc'[c] = "gb_ret" /\ IsRecord(result'[c])]_vars

\* C2 witness: a normalized record returned when the cache is exactly 10
\* seconds old.
C2_Witness ==
    \E c \in Callers :
        /\ cpc[c] = "gb_ret" /\ IsRecord(result[c])
        /\ now - cache.last_update = 10

\* Number of times an __init__ body ran.
InitRuns == LET RECURSIVE Sum(_)
                Sum(n) == IF n = 0 THEN 0 ELSE GetOr(cachesMade, n, 0) + Sum(n - 1)
            IN Sum(created)

\* C3: threads that call HardwareManager(...) concurrently while no instance
\* is initialized all get the same instance (and none of the calls raises),
\* the initialization body runs once, one reader thread is started and no
\* object's cache is made twice.
C3_ConcurrentFirstUse ==
    /\ \A t, u \in Ctors :
          kpc[t] = "returned" /\ kpc[u] = "returned" => kself[t] = kself[u]
    /\ \A t \in Ctors : kpc[t] # "raised"
    /\ InitRuns <= 1
    /\ threadsStarted <= 1
    /\ created <= 1

\* C4: once a construction has completed, every construction call returns
\* that instance, leaves the cache as it is and starts no reader thread:
\* the number of reader threads started stays one.
C4_ConstructAgain ==
    /\ [](threadsStarted = 1 /\ instance = 1)
    /\ [][\A c \in Callers :
            (cpc[c] = "idle" /\ cpc'[c] = "ctor_ret") =>
                /\ result'[c] = [object |-> instance]
                /\ cache' = cache
                /\ initialized' = initialized]_vars

\* C4 witness: a construction call has returned while the cache holds a
\* report and the reader is running.
C4_Witness ==
    \E c \in Callers :
        /\ cpc[c] = "ctor_ret" /\ result[c] = [object |-> 1]
        /\ cache.TPV = TPV3 /\ cache.last_update > 0
        /\ rpc = "readline"

\* The lines C5 is about: not JSON, an object without 'class', an object
\* whose class is neither TPV nor SKY.
Discarded(l) ==
    \/ l = GarbageLine
    \/ l.kind = "object" /\ ~HasKey(l.val, "class")
    \/ l.kind = "object" /\ HasKey(l.val, "class") /\ l.val["class"] \notin {"TPV", "SKY"}

\* C5: every step the reader takes on such a line leaves the three cache
\* fields, the subprocess and the sleep timer as they are, and (no stop
\* being requested) the reader ends up back at readline on the same
\* subprocess, passing only through the lock for a line that has a class.
C5_DiscardedLine ==
    [][(Discarded(line) /\ rpc' # rpc) =>
          /\ cache' = cache
          /\ process' = process /\ alive' = alive /\ wakeAt' = wakeAt
          /\ ~stop => \/ rpc' \in {"lock", "cs_slot"} /\ line' = line
                      \/ rpc' = "readline"]_vars

\* C5 witness: the reader holds the lock for a VERSION line it has read
\* from the running subprocess while the cache holds earlier reports.
C5_Witness ==
    /\ rpc = "cs_slot" /\ line = ObjLine(VERSION)
    /\ process = "running" /\ alive = 1
    /\ cache.TPV = TPV3 /\ cache.SKY = SKY9

\* C6: once a launch has failed with FileNotFoundError the reader goes
\* through its finally block to its end and stays there, and no subprocess
\* is launched or alive afterwards; at the end of the stream, with no stop
\* requested, the reader does not end: it goes to its backoff and from
\* there to a new launch (or a stop is requested), however many times the
\* stream has ended before.
C6_FatalVsTransient ==
    /\ [][(rpc = "finally_return" /\ rpc' # rpc) => rpc' = "done"]_vars
    /\ [](endCause = "not_found" => rpc = "done" /\ alive = 0)
    /\ [][endCause = "not_found" =>
            rpc' = "done" /\ process' = process /\ alive' = alive]_vars
    /\ [][(rpc = "after_for" /\ ~stop /\ rpc' # rpc) => rpc' = "restart"]_vars
    /\ [][(rpc \in {"restart", "sleep5"} /\ rpc' # rpc) =>
            rpc' \in {"sleep5", "finally_loop"}]_vars
    /\ (rpc = "after_for" /\ ~stop) ~> (rpc = "popen" \/ stop)

\* C6 witness: the stream has ended twice in a row and the reader has
\* relaunched each time; the third launch did not find the command and
\* the reader has ended for that reason.
C6_Witness ==
    /\ closures = 2 /\ cache = ResetCache
    /\ rpc = "done" /\ endCause = "not_found" /\ ~stop

\* C7: at the end of the stream, with no stop requested, the reader sleeps
\* 5 seconds (it does not wake before), then kills the old subprocess and
\* comes to a new launch; a TPV or SKY line read after a relaunch
\* is put in its cache slot with the time of the update, unless a stop is
\* requested first.
C7_RestartAfterEOF ==
    /\ [][(rpc = "restart" /\ rpc' # rpc) =>
            rpc' = "sleep5" /\ wakeAt' = now + 5]_vars
    /\ [][(rpc = "sleep5" /\ rpc' # rpc) =>
            now >= wakeAt /\ rpc' = "finally_loop"]_vars
    /\ (rpc = "sleep5") ~> (rpc = "popen" \/ stop)
    /\ (closures > 0 /\ rpc = "chk_stop" /\ Accepted(line) /\ ~stop)
          ~> (stop \/ (rpc = "cs_stamp" /\ cache[line.val["class"]] = line.val))
    /\ [][(closures > 0 /\ rpc = "cs_stamp" /\ rpc' # rpc) =>
            /\ rpc' = "readline" /\ process' = process
            /\ cache'[line.val["class"]] = line.val
            /\ cache'.last_update = now]_vars

\* C7 witness: 5 seconds after the end of the first stream the reader has
\* relaunched and has just stored a TPV line of the new subprocess.
C7_Witness ==
    /\ closures = 1 /\ now = ClockStart + 5
    /\ rpc = "readline" /\ process = "running" /\ alive = 1
    /\ cache.TPV = TPV3 /\ cache.last_update = now

\* C8: after close_all has set the stop flag the reader thread ends and no
\* gpspipe subprocess is left alive.
C8_StopEndsReader == stop ~> (rpc = "done" /\ alive = 0)

\* C9: on the staleness path the result has exactly the keys error and
\* fix_type, with fix_type 'No Fix': no position or measurement field,
\* whatever the cache holds.
C9_StaleHasNoPosition ==
    [][\A c \in Callers :
         (ChecksNow(c) /\ cpc'[c] = "gb_ret") =>
             /\ DOMAIN result'[c] = {"error", "fix_type"}
             /\ result'[c].fix_type = "No Fix"]_vars

\* C9 witness: the staleness result was returned while the cache holds a
\* 3D fix with coordinates.
C9_Witness ==
    \E c \in Callers :
        /\ cpc[c] = "gb_ret" /\ "error" \in DOMAIN result[c]
        /\ cache.TPV = TPV3 /\ cache.SKY = SKY9

\* C10: as long as the reader has accepted no TPV or SKY line (last_update
\* is still the initial 0), no call gets past the staleness test, and every
\* call that has returned returned the staleness result.
C10_StaleBeforeFirstLine ==
    committed = ResetCache =>
        \A c \in Callers :
            /\ cpc[c] \notin {"gb_tpv", "gb_sky"}
            /\ cpc[c] = "gb_ret" => result[c] = StaleResult

\* C10 witness: a call has returned the staleness result before any line
\* was accepted, with the reader reading its subprocess.
C10_Witness ==
    \E c \in Callers :
        /\ cpc[c] = "gb_ret" /\ result[c] = StaleResult
        /\ committed = ResetCache /\ rpc = "readline"

\* The reader is in the backoff sleep that follows the end of the stream and
\* the clock has advanced since the sleep began (a call takes no time: a
\* call in progress in such a state began during the sleep).
MidRestart == rpc = "sleep5" /\ wakeAt - now < RestartBackoff

\* C11: a call made while the reader is in its backoff after the end of the
\* stream returns the staleness result, never a normalized record.
C11_MidRestartIsStale ==
    [][\A c \in Callers :
         (MidRestart /\ InCall(c) /\ cpc'[c] = "gb_ret") =>
             result'[c] = StaleResult]_vars

\* C12: once the reader has ended because the command was not found, no
\* step changes the cache, the reader stays ended, and from the moment the
\* last accepted line is more than 10 seconds old it stays so and every
\* call returns the staleness result.
C12_FrozenAfterNotFound ==
    /\ [][endCause = "not_found" =>
            /\ cache' = cache
            /\ endCause' = "not_found" /\ rpc' = "done"]_vars
    /\ [][(endCause = "not_found" /\ now - cache.last_update > 10) =>
            /\ now' - cache'.last_update > 10
            /\ \A c \in Callers :
                  (InCall(c) /\ cpc'[c] # cpc[c]) =>
                      cpc'[c] = "gb_ret" /\ result'[c] = StaleResult]_vars

\* C12 witness: the reader accepted reports, then ended on a launch that
\* did not find the command; more than 10 seconds after the last report a
\* call has returned the staleness result.
C12_Witness ==
    \E c \in Callers :
        /\ endCause = "not_found" /\ rpc = "done"
        /\ cache.TPV = TPV3 /\ cache.last_update > 0
        /\ now - cache.last_update > 10
        /\ cpc[c] = "gb_ret" /\ result[c] = StaleResult

\* This step is c's read of the SKY slot followed by the return of a
\* record (not by an exception).
ReturnsRecordNow(c) == ReadsSkyNow(c) /\ cpc'[c] = "gb_ret"
\* The field k of the object d is present and not null.
NonNull(d, k) == HasKey(d, k) /\ d[k] # None

\* C13: in a record the call returns, fix_type is 'No Fix' when the TPV
\* slot's mode is 0, 1 or absent, '2D Fix' when it is 2, '3D Fix' when it is
\* 3, and 'Unknown' for every other value of mode.
C13_FixTypeMapping ==
    [][\A c \in Callers :
         ReturnsRecordNow(c) =>
             result'[c].fix_type =
                 LET t == tpv_data[c]
                 IN IF ~HasKey(t, "mode") THEN "No Fix"
                    ELSE IF t.mode \in {"0", "1"} THEN "No Fix"
                    ELSE IF t.mode = "2" THEN "2D Fix"
                    ELSE IF t.mode = "3" THEN "3D Fix"
                    ELSE "Unknown"]_vars

\* C14: in a record the call returns, altitude_m is the TPV slot's altHAE
\* if it is present and not null, else its altMSL if present and not null,
\* else its alt if present and not null, else null; a 0 is a value like
\* another.
C14_AltitudeFallback ==
    [][\A c \in Callers :
         ReturnsRecordNow(c) =>
             result'[c].altitude_m =
                 LET t == tpv_data[c]
                 IN IF NonNull(t, "altHAE") THEN t.altHAE
                    ELSE IF NonNull(t, "altMSL") THEN t.altMSL
                    ELSE IF NonNull(t, "alt") THEN t.alt
                    ELSE None]_vars

\* C14 witness: a record with altitude 0 returned for a TPV slot whose
\* altHAE is 0 and whose altMSL and alt carry other values.
C14_Witness ==
    \E c \in Callers :
        /\ cpc[c] = "gb_ret" /\ IsRecord(result[c])
        /\ result[c].altitude_m = "0"
        /\ cache.TPV = [class |-> "TPV", mode |-> "3", altHAE |-> "0",
                        altMSL |-> "12.0", alt |-> "150.0"]

\* C15: in a record the call returns, each satellite count is the SKY
\* slot's field (uSat, nSat) when the slot has it and 0 when it has not;
\* both are 0 while the SKY slot is the one made at construction.
C15_SatelliteCounts ==
    [][\A c \in Callers :
         ReturnsRecordNow(c) =>
             /\ result'[c].satellites_used =
                    IF HasKey(cache.SKY, "uSat") THEN cache.SKY.uSat ELSE "0"
             /\ result'[c].satellites_in_view =
                    IF HasKey(cache.SKY, "nSat") THEN cache.SKY.nSat ELSE "0"
             /\ cache.SKY = [class |-> "SKY", satellites |-> "[]"] =>
                    /\ result'[c].satellites_used = "0"
                    /\ result'[c].satellites_in_view = "0"]_vars

\* C15 witness: a record returned with both counts 0 while a TPV line has
\* been accepted and no SKY line.
C15_Witness ==
    \E c \in Callers :
        /\ cpc[c] = "gb_ret" /\ IsRecord(result[c])
        /\ cache.SKY = [class |-> "SKY", satellites |-> "[]"]
        /\ cache.TPV # ResetCache.TPV
        /\ result[c].satellites_used = "0" /\ result[c].satellites_in_view = "0"

\* The slot that is not k's.
OtherSlot(k) == IF k = "TPV" THEN "SKY" ELSE "TPV"

\* C16: the reader's assignment of line 108 puts the line's report in the
\* slot of its class and leaves the other slot and last_update as they are;
\* the stamp of line 109 sets last_update to the current time and leaves
\* both slots; and a record returned while the slots hold the TPV report
\* (mode 3, 36.1, -86.8, 150.0) and the SKY report (9 used, 14 in view)
\* has the fix type, coordinates and altitude of the one and the counts of
\* the other.
C16_OneSlotPerLine ==
    /\ [][(rpc = "cs_slot" /\ rpc' = "cs_stamp") =>
            /\ DOMAIN cache' = {"TPV", "SKY", "last_update"}
            /\ cache'[line.val["class"]] = line.val
            /\ cache'[OtherSlot(line.val["class"])] = cache[OtherSlot(line.val["class"])]
            /\ cache'.last_update = cache.last_update]_vars
    /\ [][(rpc = "cs_stamp" /\ rpc' # rpc) =>
            /\ cache'.TPV = cache.TPV /\ cache'.SKY = cache.SKY
            /\ cache'.last_update = now]_vars
    /\ [][\A c \in Callers :
            (ReturnsRecordNow(c) /\ cache.TPV = TPV3 /\ cache.SKY = SKY9) =>
                /\ result'[c].fix_type = "3D Fix"
                /\ result'[c].latitude = "36.1" /\ result'[c].longitude = "-86.8"
                /\ result'[c].altitude_m = "150.0"
                /\ result'[c].satellites_used = "9"
                /\ result'[c].satellites_in_view = "14"]_vars

\* C16 witness: a TPV line and a SKY line have been accepted, the later of
\* the two one second after the start, and a call has returned the record
\* that combines the two.
C16_Witness ==
    \E c \in Callers :
        /\ cache.TPV = TPV3 /\ cache.SKY = SKY9
        /\ cache.last_update = ClockStart + 1 /\ now = ClockStart + 1
        /\ cpc[c] = "gb_ret" /\ IsRecord(result[c])
        /\ result[c].fix_type = "3D Fix" /\ result[c].latitude = "36.1"
        /\ result[c].satellites_used = "9" /\ result[c].satellites_in_view = "14"

\* C17: a step that changes the cache (a slot or last_update) is the
\* reader's assignment of line 108 or 109 for an accepted line; every step
\* of get_best_gnss_data, get_raw_gps_cache, get_gpsd_status, close_all and
\* of a construction call leaves the cache as it is.
C17_ReaderIsSoleWriter ==
    /\ [][cache' # cache =>
            /\ rpc \in {"cs_slot", "cs_stamp"} /\ rpc' # rpc
            /\ Accepted(line)
            /\ cpc' = cpc /\ stop' = stop /\ instance' = instance]_vars
    /\ [][(cpc' # cpc \/ result' # result \/ stop' # stop) => cache' = cache]_vars

\* C17 witness: close_all has been called and get_raw_gps_cache has
\* returned its copy while the cache holds an accepted report.
C17_Witness ==
    \E c \in Callers :
        /\ cpc[c] = "raw_ret" /\ result[c] = cache
        /\ cache.TPV = TPV3 /\ cache.last_update > 0
        /\ stop

\* The lock is held and no call is inside its with block: the reader
\* holds it.
ReaderHolds == gps_lock /\ \A c \in Callers : ~InCall(c)

\* C18: the reader holds the lock only at the assignments of lines 108-109
\* (never while it launches, reads, sleeps or has ended, also not after an
\* exception raised inside the with block), the lock is never held by the
\* reader and a call together; so the lock, once held, becomes free again
\* for the call that waits for it, and a call inside its with block can
\* always take its next step, up to its return.
C18_LockOnlyForAssignments ==
    /\ [](ReaderHolds => rpc \in {"cs_slot", "cs_stamp"})
    /\ [](rpc \in {"cs_slot", "cs_stamp"} => ReaderHolds)
    /\ [](\A c \in Callers : InCall(c) => gps_lock /\ ENABLED CallRuns(c))
    /\ [](\A c \in Callers : cpc[c] \in {"gb_ret", "gb_raised"} => ENABLED Return(c))
    /\ gps_lock ~> ~gps_lock

\* C18 witness: data['class'] has raised inside the with block (the line
\* is a JSON string that contains the word class), the reader is in the
\* 10-second sleep that follows, and a call has taken the lock and returned.
C18_Witness ==
    \E c \in Callers :
        /\ rpc = "sleep10" /\ line = StringLine /\ now < wakeAt
        /\ ~gps_lock
        /\ cpc[c] = "gb_ret" /\ IsRecord(result[c])

\* C19: whatever the accepted lines have put in the cache, a call ends by
\* returning the staleness result or a complete normalized record whose
\* fix_type is one of the four texts; it never ends by an exception.
C19_NeverRaises ==
    \A c \in Callers :
        /\ cpc[c] # "gb_raised"
        /\ cpc[c] = "gb_ret" =>
              \/ result[c] = StaleResult
              \/ /\ IsRecord(result[c])
                 /\ result[c].fix_type \in {"No Fix", "2D Fix", "3D Fix", "Unknown"}

\* The lines C20 is about: those of C5 and the lines that are valid JSON
\* but no object (a number or null, a string, an array).
Unusable(l) == Discarded(l) \/ l.kind \in {"scalar", "string", "array"}

\* C20: every step the reader takes on such a line, no stop being
\* requested, leaves the cache, the subprocess and the sleep timer as they
\* are and goes on towards the next readline; no backoff sleep is entered.
C20_AllDiscardedSilently ==
    [][(Unusable(line) /\ ~stop /\ rpc' # rpc) =>
          /\ cache' = cache
          /\ process' = process /\ alive' = alive /\ wakeAt' = wakeAt
          /\ rpc' \in {"lock", "cs_slot", "readline"}]_vars

\* C21: when a call returns a record built from a TPV report that the
\* reader accepted, that report was accepted no more than 10 seconds
\* before the call, whatever TPV and SKY lines came before.
C21_PositionIsRecent ==
    [][\A c \in Callers :
         (ReturnsRecordNow(c) /\ tpvAt.at > 0) => now - tpvAt.at <= 10]_vars

\* The reader enters the handler of lines 122-124 with this step.
RaisesNow == rpc # "sleep10" /\ rpc' = "sleep10"

C23_NoSleepAfterStop ==
    /\ [][stop =>
            /\ rpc' = "sleep5" => rpc = "sleep5"
            /\ rpc' = "sleep10" => rpc = "sleep10"
            /\ alive' <= alive]_vars
    /\ [](stop /\ rpc = "done" => alive = 0)

\* C24: the record of get_best_gnss_data is the normalization of the two
\* slots the cache had while the call held the lock, whatever the reader
\* has stored between the release of the lock and the return; and the
\* dict get_raw_gps_cache returned has the three values the cache had when
\* it was taken, and keeps them through every later step.
C24_SnapshotIsolated ==
    /\ [](\A c \in Callers : InCall(c) => cache = seen[c])
    /\ [][\A c \in Callers :
            /\ (cpc[c] = "gb_build" /\ cpc'[c] = "gb_ret") =>
                  result'[c] = Normalize(seen[c].TPV, seen[c].SKY)
            /\ (cpc[c] = "idle" /\ cpc'[c] = "raw_ret") =>
                  /\ DOMAIN View(result[c])' = {"TPV", "SKY", "last_update"}
                  /\ View(result[c])' = cache
            /\ (cpc[c] = "raw_ret" /\ cpc'[c] = "raw_ret") =>
                  View(result[c])' = View(result[c])]_vars

\* C24 witness: one call has released the lock and not yet built its
\* record, another holds a dict from get_raw_gps_cache, and the reader has
\* since stored a TPV line: the cache differs from what either holds.
C24_Witness ==
    \E c, d \in Callers :
        /\ cpc[c] = "gb_build" /\ tpv_data[c] = ResetCache.TPV
        /\ cpc[d] = "raw_ret" /\ result[d].TPV = ResetCache.TPV
        /\ cache.TPV = TPV3 /\ committed = cache /\ rpc = "readline"

\* C25: the assignment of line 108 makes the slot of the line's class the
\* line's report, with exactly its fields; so a record built from the TPV
\* report without lat and altitude fields has null latitude and altitude,
\* and one built from the SKY report without uSat has satellites_used 0,
\* also when the slot held a report with those fields before.
C25_SlotReplacedWhole ==
    /\ [][(rpc = "cs_slot" /\ rpc' = "cs_stamp") =>
            /\ cache'[line.val["class"]] = line.val
            /\ DOMAIN cache'[line.val["class"]] = DOMAIN line.val]_vars
    /\ [][\A c \in Callers :
            (cpc[c] = "gb_build" /\ cpc'[c] = "gb_ret") =>
                /\ seen[c].TPV = TPV1 =>
                      /\ result'[c].latitude = None
                      /\ result'[c].longitude = None
                      /\ result'[c].altitude_m = None
                /\ seen[c].SKY = SKYNoUsed => result'[c].satellites_used = "0"]_vars

\* C25 witness: a call that read the TPV report with coordinates and the
\* SKY report with uSat = 9 has not returned yet; the reader has since
\* stored a TPV line without coordinates and a SKY line without uSat, and a
\* second call has returned a record with null latitude, null altitude
\* and 0 satellites used.
C25_Witness ==
    \E c, d \in Callers :
        /\ cpc[d] = "gb_build" /\ tpv_data[d] = TPV3 /\ sky_data[d] = SKY9
        /\ cache.TPV = TPV1 /\ cache.SKY = SKYNoUsed
        /\ cpc[c] = "gb_ret" /\ IsRecord(result[c])
        /\ result[c].latitude = None /\ result[c].altitude_m = None
        /\ result[c].satellites_used = "0"

\* The reader is past the stop test of line 100 with a line that has a
\* class: it waits for the lock or is inside the with block.
Updating == rpc \in {"lock", "cs_slot", "cs_stamp"}

\* C26: the cache changes only in the reader's with block; once the stop
\* flag is set the reader does not come (back) to the with block, so the
\* only update after the flag is the one that was already past its stop
\* test; a line whose stop test comes after the flag is dropped before
\* json.loads (no slot, no lock, no exception handler); and a reader that
\* has ended stays ended with the cache as it is.
C26_OneUpdateAfterStop ==
    /\ [][cache' # cache => Updating /\ rpc \in {"cs_slot", "cs_stamp"}]_vars
    /\ [][(stop /\ ~Updating) => ~Updating']_vars
    /\ [][(stop /\ rpc = "chk_stop" /\ rpc' # rpc) =>
            /\ rpc' = "after_for" /\ line' = NoLine
            /\ cache' = cache /\ gps_lock' = gps_lock /\ wakeAt' = wakeAt]_vars
    /\ [][rpc = "done" => rpc' = "done" /\ cache' = cache]_vars

\* C26 witness: the stop flag is set and the reader, past its stop test, is
\* inside the with block about to store a TPV line in a cache that has
\* none yet.
C26_Witness ==
    /\ stop /\ rpc = "cs_slot" /\ line = ObjLine(TPV3)
    /\ cache.TPV = ResetCache.TPV

\* C27: at most one subprocess launched by the reader is alive; none is
\* alive when the reader is about to launch or has ended; and the one that
\* is alive is the one the reader's `process` names.
C27_OneSubprocess ==
    /\ alive \in {0, 1}
    /\ rpc \in {"while", "popen", "done"} => alive = 0
    /\ alive = 1 <=> process = "running"

\* C27 witness: two streams have ended, each subprocess was killed in its
\* turn, and the reader has ended on a stop request with none alive.
C27_Witness ==
    /\ closures = 2 /\ rpc = "done" /\ endCause = "stop"
    /\ process = "killed" /\ alive = 0

\* The reader has ended on the stop request of close_all.
Stopped == stop /\ rpc = "done"

\* C28: once close_all has set the flag it stays set and no step starts a
\* reader thread or makes another instance; a construction call returns
\* the one instance and leaves the cache; a reader that has ended on the
\* request stays ended and the cache stays as it is; and from the moment
\* the last accepted line is more than 10 seconds old it stays so and
\* every call returns the staleness result.
C28_ShutdownIsPermanent ==
    /\ [][stop =>
            /\ stop' /\ threadsStarted' = threadsStarted
            /\ instance' = instance /\ initialized' = initialized
            /\ created' = created]_vars
    /\ [][\A c \in Callers :
            (stop /\ cpc[c] = "idle" /\ cpc'[c] = "ctor_ret") =>
                result'[c] = [object |-> instance] /\ cache' = cache]_vars
    /\ [][Stopped => Stopped' /\ cache' = cache]_vars
    /\ [][(Stopped /\ now - cache.last_update > 10) =>
            /\ now' - cache'.last_update > 10
            /\ \A c \in Callers :
                  (InCall(c) /\ cpc'[c] # cpc[c]) =>
                      cpc'[c] = "gb_ret" /\ result'[c] = StaleResult]_vars

\* C28 witness: the reader stored a TPV line and has ended on the stop
\* request; more than 10 seconds later one thread has got the instance
\* from a construction call and another the staleness result.
C28_Witness ==
    \E c, d \in Callers :
        /\ Stopped /\ endCause = "stop" /\ threadsStarted = 1
        /\ cache.TPV = TPV3 /\ now - cache.last_update > 10
        /\ cpc[c] = "ctor_ret" /\ result[c] = [object |-> 1]
        /\ cpc[d] = "gb_ret" /\ result[d] = StaleResult

\* The result r has no 'error' key and a latitude that is not null.
HasPosition(r) == ~HasKey(r, "error") /\ HasKey(r, "latitude") /\ r.latitude # None

\* C29: a row is added to location_data only by poll_gnss_data on a result
\* of get_best_gnss_data that has no 'error' key and a non-null latitude,
\* and the row carries that result's coordinates; get_location_details
\* returns coordinates from GNSS only on such a result, and they are that
\* result's; on the staleness result no row is added and the failure
\* triple is returned.
C29_OnlyUsableResults ==
    /\ [][location_data' # location_data =>
            \E c \in Callers :
                /\ cpc[c] = "gb_ret" /\ cpc'[c] = "poll_ret"
                /\ HasPosition(result[c])
                /\ Len(location_data') = Len(location_data) + 1
                /\ SubSeq(location_data', 1, Len(location_data)) = location_data
                /\ location_data'[Len(location_data')].latitude = result[c].latitude
                /\ location_data'[Len(location_data')].longitude = result[c].longitude]_vars
    /\ [][\A c \in Callers :
            (cpc[c] # "loc_ret" /\ cpc'[c] = "loc_ret"
               /\ result'[c].info = [source |-> "Onboard GNSS"]) =>
                /\ cpc[c] = "gb_ret" /\ HasPosition(result[c])
                /\ result'[c].lat = result[c].latitude
                /\ result'[c].lon = result[c].longitude]_vars
    /\ [][\A c \in Callers :
            (cpc[c] = "gb_ret" /\ result[c] = StaleResult /\ cpc'[c] # cpc[c]) =>
                /\ location_data' = location_data
                /\ cpc'[c] = "loc_ret" => result'[c] = Unresolved]_vars

\* C29 witness: a row with coordinates was inserted while the cache was
\* fresh; 11 seconds later get_location_details has got the staleness
\* result and returned the failure triple, the cache still holding the
\* coordinates.
C29_Witness ==
    \E c \in Callers :
        /\ Len(location_data) = 1 /\ location_data[1].latitude = "36.1"
        /\ HasKey(cache.TPV, "lat") /\ now - cache.last_update > 10
        /\ cpc[c] = "loc_ret" /\ result[c] = Unresolved

\* C30: without an injected HardwareManager, get_location_details called
\* with both managers does not raise: it ends by returning a triple.
C30_FallbackReturnsTriple ==
    ~hw_injected =>
        \A c \in Callers :
            /\ cpc[c] # "loc_raised"
            /\ cpc[c] = "loc_ret" => DOMAIN result[c] = {"lat", "lon", "info"}

====
